---- MODULE Spec2Model ----
(***************************************************************************)
(* Model of the cocomo-ui repository: the two structural validators        *)
(* (utils/github_upload.py, utils/generate_specsheet.py), the external     *)
(* clients (api/, utils/) and the Streamlit script of main.py.             *)
(*                                                                         *)
(* Three specifications share the module:                                  *)
(*   SpecValidate  applies a validator to one input drawn from a bounded   *)
(*                 set of Python values;                                   *)
(*   SpecClient    runs invocations of the external clients against a      *)
(*                 server that answers, fails or stays silent;             *)
(*   Spec          runs the script of main.py, one rerun per user action.  *)
(***************************************************************************)
EXTENDS Integers, Sequences, FiniteSets, TLC

VARIABLES
    vfn, vin, vout,                      \* validator under test, its argument, its outcome
    client, cpc, cin, cresp, creqs, cret, cserver, cinvs, ctotal,
                                         \* client invocations: who, where, what, how many
    software, level, param_mode, manual_language, widget, session, last
                                         \* main.py: widget values, st.session_state, last rerun

vars == <<vfn, vin, vout, client, cpc, cin, cresp, creqs, cret, cserver, cinvs, ctotal,
          software, level, param_mode, manual_language, widget, session, last>>

validateVars == <<vfn, vin, vout>>
clientVars == <<client, cpc, cin, cresp, creqs, cret, cserver, cinvs, ctotal>>
scriptVars == <<software, level, param_mode, manual_language, widget, session, last>>

(***************************************************************************)
(* Python values.  Every value is a record tagged by its kind k, so that   *)
(* values of different kinds can sit in one collection.  A dict is a       *)
(* record over the keys the code looks up; a key that is not in the dict   *)
(* maps to Absent.  A str carries the set of looked-up keys that occur in  *)
(* it as substrings (the only thing `key in some_str` reads).              *)
(***************************************************************************)
Absent == [k |-> "absent"]
PyNone == [k |-> "none"]
PyNum(n) == [k |-> "num", v |-> n]
PyStr(s) == [k |-> "str", v |-> s, subs |-> {}]
PyStrWith(s, keys) == [k |-> "str", v |-> s, subs |-> keys]
PyList(q) == [k |-> "list", v |-> q]
PyDict(f) == [k |-> "dict", v |-> f]

IsStr(x, s) == x.k = "str" /\ x.v = s

\* bool(x) is False
Falsy(x) ==
    CASE x.k = "none" -> TRUE
      [] x.k = "num" -> x.v = 0
      [] x.k = "str" -> x.v = ""
      [] x.k = "list" -> x.v = <<>>
      [] x.k = "dict" -> \A key \in DOMAIN x.v : x.v[key].k = "absent"
      [] OTHER -> TRUE

\* `key in x` raises TypeError for None and numbers
InRaises(x) == x.k \in {"none", "num"}

\* `key in x`, for a string key
In(key, x) ==
    CASE x.k = "dict" -> key \in DOMAIN x.v /\ x.v[key].k # "absent"
      [] x.k = "list" -> \E i \in 1..Len(x.v) : IsStr(x.v[i], key)
      [] x.k = "str" -> key \in x.subs
      [] OTHER -> FALSE

\* x["key"] raises TypeError unless x is a dict
SubscriptRaises(x) == x.k # "dict"

(***************************************************************************)
(* Resting values of the parts a specification does not exercise.          *)
(***************************************************************************)
ValidateIdle == vfn = "none" /\ vin = PyNone /\ vout = [st |-> "idle"]
NoReturn == [t |-> "none", keys |-> {}, success |-> "", cause |-> "", repo_name |-> ""]
ClientIdle ==
    /\ client = "none" /\ cpc = "idle" /\ cin = "none" /\ cresp = "none"
    /\ creqs = 0 /\ cret = NoReturn /\ cserver = "none" /\ cinvs = 0 /\ ctotal = 0
NoWidget == [lv |-> "", opts |-> <<>>, val |-> <<>>]
NoFeatures ==
    [k |-> "none", v |-> [keys |-> {}, basic |-> <<>>, intermediate |-> <<>>, advanced |-> <<>>]]
NoAnswers ==
    [key \in {"function_points", "reuse", "revl", "effort_schedule"} |-> "unsent"]
NoRerun ==
    [trigger |-> "start", selected |-> <<>>, shown |-> {}, sent |-> <<>>,
     answers |-> NoAnswers, api |-> {}, spec |-> FALSE, aborted |-> "",
     fs |-> NoFeatures, params |-> Absent, passed |-> <<>>]
ScriptIdle ==
    /\ software = "" /\ level = "basic" /\ param_mode = "ai" /\ manual_language = "Java"
    /\ widget = NoWidget /\ session = Absent /\ last = NoRerun

(***************************************************************************)
(* What a validator call produces: a returned (is_valid, message) pair or  *)
(* an exception.  A message is kept as its template id, the path that was  *)
(* formatted into it and the formatted value, if any.  A path is the text  *)
(* "root[i]/n1/n2/..." kept as the index i and the names n1, n2, ...       *)
(***************************************************************************)
NoPath == [root |-> -1, names |-> <<>>]
Msg(id, path, arg) == [id |-> id, path |-> path, arg |-> arg]
Accept == [st |-> "return", ok |-> TRUE, msg |-> Msg("", NoPath, "")]
Reject(id, path, arg) == [st |-> "return", ok |-> FALSE, msg |-> Msg(id, path, arg)]
Raise(exc) == [st |-> "raise", ok |-> FALSE, msg |-> Msg(exc, NoPath, "")]
Pending == [st |-> "pending", ok |-> FALSE, msg |-> Msg("", NoPath, "")]

\* f"root[{i}]" of the top-level loop; enumerate counts from 0
RootPath(i) == [root |-> i - 1, names |-> <<>>]

\* f"{path}/{item['name']}": the path handed to the children of item
ChildPath(path, item) == [root |-> path.root, names |-> Append(path.names, item.v.name.v)]

RECURSIVE validate_structure_item(_, _)
RECURSIVE ValidateChildren(_, _, _, _)

\* the loop over item["children"]: returns at the first child that fails
ValidateChildren(item, children, i, path) ==
    IF i > Len(children) THEN Accept
    ELSE LET r == validate_structure_item(children[i], ChildPath(path, item))
         IN IF ~r.ok THEN r ELSE ValidateChildren(item, children, i + 1, path)

\* a validator that checks the name of a node before its type
validate_structure_item_name_first(item, path) ==
    IF item.k # "dict" THEN Reject("item_not_dict", path, "")
    ELSE IF ~In("name", item) THEN Reject("missing_name", path, "")
    ELSE IF ~In("type", item) THEN Reject("missing_type", path, "")
    ELSE IF ~(IsStr(item.v.type, "file") \/ IsStr(item.v.type, "folder"))
        THEN Reject("invalid_type", path, item.v.type.v)
    ELSE IF IsStr(item.v.type, "folder") /\ In("children", item)
        THEN IF item.v.children.k # "list"
                THEN Reject("children_not_list", path, "")
                ELSE ValidateChildren(item, item.v.children.v, 1, path)
    ELSE Accept

validate_structure_item(item, path) ==
    IF item.k # "dict" THEN Reject("item_not_dict", path, "")
    ELSE IF ~In("type", item) THEN Reject("missing_type", path, "")
    ELSE IF ~In("name", item) THEN Reject("missing_name", path, "")
    ELSE IF ~(IsStr(item.v.type, "file") \/ IsStr(item.v.type, "folder"))
        THEN Reject("invalid_type", path, item.v.type.v)
    ELSE IF IsStr(item.v.type, "folder") /\ In("children", item)
        THEN IF item.v.children.k # "list"
                THEN Reject("children_not_list", path, "")
                ELSE ValidateChildren(item, item.v.children.v, 1, path)
    ELSE Accept

RECURSIVE ValidateStructure(_, _)
\* the loop over folder_structure["structure"]
ValidateStructure(structure, i) ==
    IF i > Len(structure) THEN Accept
    ELSE LET r == validate_structure_item(structure[i], RootPath(i))
         IN IF ~r.ok THEN r ELSE ValidateStructure(structure, i + 1)

validate_folder_structure(fs) ==
    IF Falsy(fs) THEN Reject("empty", NoPath, "")
    ELSE IF InRaises(fs) THEN Raise("TypeError")
    ELSE IF ~In("name", fs) THEN Reject("name_missing", NoPath, "")
    ELSE IF ~In("structure", fs) THEN Reject("structure_missing", NoPath, "")
    ELSE IF SubscriptRaises(fs) THEN Raise("TypeError")
    ELSE IF fs.v.structure.k # "list" THEN Reject("structure_not_list", NoPath, "")
    ELSE IF Len(fs.v.structure.v) = 0 THEN Reject("structure_empty", NoPath, "")
    ELSE ValidateStructure(fs.v.structure.v, 1)

(***************************************************************************)
(* Inputs of validate_folder_structure: every forest of at most MaxNodes   *)
(* nodes over the node shapes below, under a well-formed top level, and    *)
(* the malformed top levels.                                               *)
(***************************************************************************)
MaxNodes == 3

Node(type, name, children) == PyDict([type |-> type, name |-> name, children |-> children])
FolderStructure(name, structure) == PyDict([name |-> name, structure |-> structure])

\* nodes without a children list
LeafNodes ==
    { PyNum(7),
      Node(Absent, Absent, Absent),
      Node(Absent, PyStr("x"), Absent),
      Node(PyStr("file"), Absent, Absent),
      Node(PyStr("dir"), PyStr("docs"), Absent),
      Node(PyStr("file"), PyStr("main.py"), Absent),
      Node(PyStr("folder"), PyStr("src"), Absent),
      Node(PyStr("folder"), PyStr("src"), PyNum(1)),
      Node(PyStr("file"), PyStr("main.py"), PyNum(1)) }

\* nodes with a children list: a folder, and a file that carries one
ParentNode(type, children) ==
    Node(PyStr(type), PyStr(IF type = "folder" THEN "src" ELSE "main.py"), PyList(children))
ParentTypes == {"folder", "file"}

RECURSIVE TreesOfSize(_)
RECURSIVE ForestsOfSize(_)
TreesOfSize(n) ==
    (IF n = 1 THEN LeafNodes ELSE {})
    \cup { ParentNode(t, f) : t \in ParentTypes, f \in ForestsOfSize(n - 1) }
ForestsOfSize(n) ==
    IF n = 0 THEN {<<>>}
    ELSE UNION { { <<t>> \o f : t \in TreesOfSize(m), f \in ForestsOfSize(n - m) } : m \in 1..n }

Forests == UNION { ForestsOfSize(n) : n \in 0..MaxNodes }

FolderInputs ==
    { FolderStructure(PyStr("demo"), PyList(f)) : f \in Forests }
    \cup { PyNone, PyNum(0), PyNum(5), PyStr(""), PyStr("demo"),
           PyStrWith("name structure", {"name", "structure"}),
           PyList(<<>>), PyList(<<PyStr("name")>>),
           PyList(<<PyStr("name"), PyStr("structure")>>),
           FolderStructure(Absent, Absent),
           FolderStructure(PyStr("demo"), Absent),
           FolderStructure(Absent, PyList(<<Node(PyStr("file"), PyStr("main.py"), Absent)>>)),
           FolderStructure(PyStr("demo"), PyNum(1)),
           FolderStructure(PyStr("demo"), Node(PyStr("file"), PyStr("main.py"), Absent)),
           FolderStructure(PyStr("demo"), PyStr("src")) }

InitValidateFolder ==
    /\ vfn = "folder"
    /\ vin \in FolderInputs
    /\ vout = Pending

ValidateFolder ==
    /\ vfn = "folder"
    /\ vout.st = "pending"
    /\ vout' = validate_folder_structure(vin)
    /\ UNCHANGED <<vfn, vin, clientVars, scriptVars>>


(***************************************************************************)
(* validate_cocomo_params (utils/generate_specsheet.py).                   *)
(***************************************************************************)
required_fields == <<"function_points", "reuse", "revl", "effort_schedule">>

RECURSIVE CheckRequired(_, _)
\* the loop over required_fields: returns at the first field that is missing
CheckRequired(params, i) ==
    IF i > Len(required_fields) THEN Accept
    ELSE IF InRaises(params) THEN Raise("TypeError")
    ELSE IF ~In(required_fields[i], params) THEN Reject("missing_field", NoPath, required_fields[i])
    ELSE CheckRequired(params, i + 1)

\* validate_cocomo_params without its last check (fp_items may be anything)
validate_cocomo_params_no_list_check(params) ==
    LET req == CheckRequired(params, 1)
    IN IF req # Accept THEN req
       ELSE IF SubscriptRaises(params) THEN Raise("TypeError")
       ELSE LET fp == params.v.function_points
            IN IF InRaises(fp) THEN Raise("TypeError")
               ELSE IF ~In("fp_items", fp) THEN Reject("missing_fp_items", NoPath, "")
               ELSE IF ~In("language", fp) THEN Reject("missing_language", NoPath, "")
               ELSE Accept

validate_cocomo_params(params) ==
    LET req == CheckRequired(params, 1)
    IN IF req # Accept THEN req
       ELSE IF SubscriptRaises(params) THEN Raise("TypeError")
       ELSE LET fp == params.v.function_points
            IN IF InRaises(fp) THEN Raise("TypeError")
               ELSE IF ~In("fp_items", fp) THEN Reject("missing_fp_items", NoPath, "")
               ELSE IF ~In("language", fp) THEN Reject("missing_language", NoPath, "")
               ELSE IF SubscriptRaises(fp) THEN Raise("TypeError")
               ELSE IF fp.v.fp_items.k # "list" THEN Reject("fp_items_not_list", NoPath, "")
               ELSE Accept

(***************************************************************************)
(* Inputs of validate_cocomo_params.                                       *)
(***************************************************************************)
CocomoParams(fp, reuse, revl, effort) ==
    PyDict([function_points |-> fp, reuse |-> reuse, revl |-> revl, effort_schedule |-> effort])
FunctionPoints(items, language) == PyDict([fp_items |-> items, language |-> language])
FpItem(type, det, ftr) == PyDict([fp_type |-> type, det |-> det, ftr_or_ret |-> ftr])

GoodItem == FpItem(PyStr("EI"), PyNum(10), PyNum(2))
FpItemsValues ==
    { Absent, PyNone, PyStr("EI"), PyList(<<>>), PyList(<<GoodItem>>),
      PyList(<<GoodItem, PyNum(3)>>),
      PyList(<<FpItem(PyStr("XX"), PyStr("ten"), Absent)>>) }
LanguageValues == { Absent, PyStr(""), PyStr("Java"), PyNum(1) }
FunctionPointsValues ==
    { FunctionPoints(i, l) : i \in FpItemsValues, l \in LanguageValues }
    \cup { Absent, PyNone, PyNum(3), PyStr("x"),
           PyStrWith("fp_items language", {"fp_items", "language"}),
           PyList(<<PyStr("fp_items"), PyStr("language")>>) }
ReuseValues == { Absent, PyDict([asloc |-> PyNum(3000)]) }
RevlValues == { Absent, PyDict([new_sloc |-> PyNum(5000)]) }
EffortValues == { Absent, PyDict([sloc_ksloc |-> PyNum(9)]), PyNone }

CocomoInputs ==
    { CocomoParams(fp, ru, rv, ef) :
        fp \in FunctionPointsValues, ru \in ReuseValues, rv \in RevlValues, ef \in EffortValues }
    \cup { PyNone, PyNum(0), PyNum(5), PyStr(""), PyList(<<>>),
           PyStrWith("function_points reuse revl effort_schedule",
                     {"function_points", "reuse", "revl", "effort_schedule"}),
           PyList(<<PyStr("function_points"), PyStr("reuse"), PyStr("revl"),
                    PyStr("effort_schedule")>>) }

InitValidateCocomo ==
    /\ vfn = "cocomo"
    /\ vin \in CocomoInputs
    /\ vout = Pending

ValidateCocomo ==
    /\ vfn = "cocomo"
    /\ vout.st = "pending"
    /\ vout' = validate_cocomo_params(vin)
    /\ UNCHANGED <<vfn, vin, clientVars, scriptVars>>


(***************************************************************************)
(* SpecValidate: one validator applied to one input.                       *)
(***************************************************************************)
InitValidate ==
    /\ InitValidateFolder \/ InitValidateCocomo
    /\ ClientIdle
    /\ ScriptIdle

NextValidate == ValidateFolder \/ ValidateCocomo

SpecValidate == InitValidate /\ [][NextValidate]_vars


(***************************************************************************)
(* The validators' contracts, stated independently of the code's order of  *)
(* checks.                                                                 *)
(***************************************************************************)
RECURSIVE WellFormedNode(_)
WellFormedNode(n) ==
    /\ n.k = "dict"
    /\ In("name", n)
    /\ In("type", n)
    /\ IsStr(n.v.type, "file") \/ IsStr(n.v.type, "folder")
    /\ (IsStr(n.v.type, "folder") /\ In("children", n)) =>
          /\ n.v.children.k = "list"
          /\ \A i \in 1..Len(n.v.children.v) : WellFormedNode(n.v.children.v[i])

WellFormedFolder(fs) ==
    /\ fs.k = "dict"
    /\ In("name", fs)
    /\ In("structure", fs)
    /\ fs.v.structure.k = "list"
    /\ Len(fs.v.structure.v) > 0
    /\ \A i \in 1..Len(fs.v.structure.v) : WellFormedNode(fs.v.structure.v[i])

Rejected(r) == r.st = "return" /\ ~r.ok /\ r.msg.id # ""
FolderDone == vfn = "folder" /\ vout.st # "pending"
CocomoDone == vfn = "cocomo" /\ vout.st # "pending"

\* The verdict on mappings and on empty inputs: accepted exactly when well formed,
\* rejected with a message otherwise.
FolderVerdictOnMappings ==
    (FolderDone /\ (vin.k = "dict" \/ Falsy(vin))) =>
        IF WellFormedFolder(vin) THEN vout = Accept ELSE Rejected(vout)

\* C1: validate_folder_structure returns (True, "") exactly for the well-formed
\* inputs (name and structure present, structure a non-empty list, every node a
\* mapping with a name and a type of file or folder, a folder's children a list of
\* such nodes), and returns (False, message) for every other input.
C1_FolderVerdict ==
    FolderDone => IF WellFormedFolder(vin) THEN vout = Accept ELSE Rejected(vout)

\* C3: whatever the input, mappings or not, both validators end by returning a
\* verdict and never by raising.
C3_ValidatorsNeverRaise ==
    vout.st # "raise"

(***************************************************************************)
(* C2: the bundles validate_cocomo_params accepts.                         *)
(***************************************************************************)
WellTypedItem(x) ==
    /\ x.k = "dict"
    /\ In("fp_type", x) /\ In("det", x) /\ In("ftr_or_ret", x)
    /\ \E t \in {"EI", "EO", "EQ", "ILF", "EIF"} : IsStr(x.v.fp_type, t)
    /\ x.v.det.k = "num" /\ x.v.det.v > 0
    /\ x.v.ftr_or_ret.k = "num" /\ x.v.ftr_or_ret.v > 0

HasRequiredFields(params) ==
    /\ params.k = "dict"
    /\ \A i \in 1..Len(required_fields) : In(required_fields[i], params)
    /\ params.v.function_points.k = "dict"
    /\ In("fp_items", params.v.function_points)
    /\ In("language", params.v.function_points)
    /\ params.v.function_points.v.fp_items.k = "list"

StrictlyValid(params) ==
    /\ HasRequiredFields(params)
    /\ LET fp == params.v.function_points.v
       IN /\ Len(fp.fp_items.v) > 0
          /\ \A i \in 1..Len(fp.fp_items.v) : WellTypedItem(fp.fp_items.v[i])
          /\ fp.language.k = "str" /\ fp.language.v # ""

\* C2 as stated: valid exactly when the four sub-keys are present, fp_items is a
\* non-empty sequence of well-typed items and language is present and non-empty.
C2_StrictVerdict ==
    CocomoDone => (vout = Accept <=> StrictlyValid(vin))

\* C2 as amended: valid exactly when the four sub-keys are present, function_points
\* is a mapping holding fp_items and language, and fp_items is a list; neither the
\* length or items of fp_items nor the value of language is looked at.
C2_PresenceVerdict ==
    CocomoDone => (vout = Accept <=> HasRequiredFields(vin))

\* a bundle with an empty fp_items list and an empty language string was accepted
C2_Witness ==
    /\ CocomoDone
    /\ vout = Accept
    /\ vin.v.function_points.v.fp_items = PyList(<<>>)
    /\ vin.v.function_points.v.language = PyStr("")


(***************************************************************************)
(* C4: which node a reported path stands for.  A node is located by its    *)
(* indices from the top-level list down (1-based here).                    *)
(***************************************************************************)
\* the children the validator walks into: those of a folder whose own checks pass
WalkedChildren(n) ==
    IF /\ n.k = "dict" /\ In("type", n) /\ In("name", n)
       /\ IsStr(n.v.type, "folder") /\ In("children", n) /\ n.v.children.k = "list"
    THEN n.v.children.v
    ELSE <<>>

RECURSIVE NodeIn(_, _)
\* the node at location loc below the list nodes, or Absent
NodeIn(nodes, loc) ==
    IF loc = <<>> \/ Head(loc) > Len(nodes) THEN Absent
    ELSE IF Len(loc) = 1 THEN nodes[Head(loc)]
    ELSE NodeIn(WalkedChildren(nodes[Head(loc)]), Tail(loc))

NodeAt(fs, loc) == NodeIn(fs.v.structure.v, loc)

Locations == UNION { [1..n -> 1..MaxNodes] : n \in 1..MaxNodes }
WalkedLocations(fs) == { loc \in Locations : NodeAt(fs, loc) # Absent }

\* the path the validator formats for the node at loc: root[i] and then the name
\* of every node from the top-level one down to the parent of loc
PathOf(fs, loc) ==
    [root |-> loc[1] - 1,
     names |-> [j \in 1..(Len(loc) - 1) |-> NodeAt(fs, SubSeq(loc, 1, j)).v.name.v]]

\* the first of a node's own checks that fails, "" when none does
OwnDefect(n) ==
    IF n.k # "dict" THEN "item_not_dict"
    ELSE IF ~In("type", n) THEN "missing_type"
    ELSE IF ~In("name", n) THEN "missing_name"
    ELSE IF ~(IsStr(n.v.type, "file") \/ IsStr(n.v.type, "folder")) THEN "invalid_type"
    ELSE IF IsStr(n.v.type, "folder") /\ In("children", n) /\ n.v.children.k # "list"
        THEN "children_not_list"
    ELSE ""

RECURSIVE FirstOffender(_, _, _)
\* the location of the first node, in depth-first pre-order, with a defect of its
\* own; <<>> when there is none
FirstOffender(nodes, i, prefix) ==
    IF i > Len(nodes) THEN <<>>
    ELSE IF OwnDefect(nodes[i]) # "" THEN Append(prefix, i)
    ELSE LET below == FirstOffender(WalkedChildren(nodes[i]), 1, Append(prefix, i))
         IN IF below # <<>> THEN below ELSE FirstOffender(nodes, i + 1, prefix)

RejectedForNode == FolderDone /\ Rejected(vout) /\ vout.msg.path # NoPath

\* C4: when a structure is rejected because of a node, the reported path stands
\* for that node and for no other node of the structure, so that defects in two
\* children of one folder are reported under different paths.
C4_PathIdentifiesNode ==
    RejectedForNode =>
        { loc \in WalkedLocations(vin) : PathOf(vin, loc) = vout.msg.path }
            = { FirstOffender(vin.v.structure.v, 1, <<>>) }

\* The path the code reports is the one of the first offender: it names the
\* offender's parents, which all the children of that parent share.
ReportedPathIsParentChain ==
    RejectedForNode =>
        LET bad == FirstOffender(vin.v.structure.v, 1, <<>>)
        IN /\ bad # <<>>
           /\ vout.msg.path = PathOf(vin, bad)
           /\ vout.msg.id = OwnDefect(NodeAt(vin, bad))


(***************************************************************************)
(* The external clients.  Each is one function that sends one HTTP request *)
(* (or one chat completion) and turns the outcome into its return value.   *)
(***************************************************************************)
RequestsClients ==
    { "post_json", "get_health_check", "suggest_features_and_stack",
      "classify_features_by_level", "generate_cocomo2_parameters",
      "evaluate_cocomo_effort", "generate_folder_structure",
      "generate_specification_sheet", "upload_to_github" }

\* the stages of main.py that go through chat_with_llm
LlmStages ==
    { "generate_feature_sets", "generate_cocomo_parameters", "build_comprehensive_spec_sheet" }

Clients == RequestsClients \cup LlmStages

\* the clients whose request is given a timeout= argument (30, 10, 30 and 120 s);
\* the others call requests.post(url, json=payload) or the chat completion bare
TimedClients ==
    { "post_json", "get_health_check", "generate_specification_sheet", "upload_to_github" }

\* what can come back for a request that was sent
HttpOutcomes ==
    { "ok_200",          \* status 200, the body is a JSON object
      "ok_200_empty",    \* status 200, the body is the JSON object {}
      "ok_200_list",     \* status 200, the body is JSON but not an object
      "ok_2xx",          \* another 2xx status, the body is a JSON object
      "http_error",      \* a 4xx or 5xx status
      "bad_body",        \* status 200, the body is not JSON
      "conn_error",      \* requests.exceptions.ConnectionError
      "request_error" }  \* another requests.exceptions.RequestException
LlmOutcomes ==
    { "ok_200",          \* a completion whose text is a JSON object
      "bad_body",        \* a completion whose text is not JSON
      "http_error",      \* the API answered with an error status
      "conn_error" }     \* the API could not be reached
OutcomesOf(c) == IF c \in LlmStages THEN LlmOutcomes ELSE HttpOutcomes

TransportFailures == { "conn_error", "request_error", "timeout" }
FailureOutcomes == TransportFailures \cup { "http_error", "bad_body" }

\* the payloads a client can be called with: post_json looks at its payload
InputsOf(c) ==
    CASE c = "post_json" -> { "empty", "filled" }
      [] c = "upload_to_github" ->
            { "valid_folder", "empty_folder", "no_structure", "bad_node", "not_a_dict" }
      [] OTHER -> { "filled" }

\* the folder_structure argument of upload_to_github
UploadFolder(input) ==
    CASE input = "valid_folder" ->
            FolderStructure(PyStr("shop"), PyList(<<Node(PyStr("file"), PyStr("main.py"), Absent)>>))
      [] input = "empty_folder" -> FolderStructure(Absent, Absent)
      [] input = "no_structure" -> FolderStructure(PyStr("shop"), Absent)
      [] input = "bad_node" ->
            FolderStructure(PyStr("shop"), PyList(<<Node(PyStr("dir"), PyStr("docs"), Absent)>>))
      [] OTHER -> PyNone

\* the project_name argument of upload_to_github, and the repo_name of the service
ProjectName == "shop"
ServiceRepoName == "user/shop-1"

\* `if not payload: return None` of post_json: the call returns before any request
\* and folder_structure.get(...) of upload_to_github, inside its try, raises
\* AttributeError unless folder_structure is a dict
ReturnsBeforeRequest(c, input) ==
    \/ c = "post_json" /\ input = "empty"
    \/ c = "upload_to_github" /\ UploadFolder(input).k # "dict"

(***************************************************************************)
(* Return values.  A dict is kept as its key set; cause is what the value  *)
(* says about the outcome (the text of the exception or of the status).    *)
(***************************************************************************)
Payload(outcome) == [t |-> "payload", keys |-> {}, success |-> "", cause |-> outcome, repo_name |-> ""]
ReturnNone == [t |-> "None", keys |-> {}, success |-> "", cause |-> "", repo_name |-> ""]
\* {"error": str(e)}
ErrorDict(outcome) == [t |-> "dict", keys |-> {"error"}, success |-> "", cause |-> outcome, repo_name |-> ""]
\* {"success": False, "error": ...} and, for upload's non-200 branch, "status_code"
FailureRecord(outcome, extra) ==
    [t |-> "dict", keys |-> {"success", "error"} \cup extra, success |-> "False", cause |-> outcome, repo_name |-> ""]
SuccessRecord(keys) ==
    [t |-> "dict", keys |-> keys \cup {"success"}, success |-> "True", cause |-> "",
     repo_name |-> ""]
\* the fallbacks of the LLM stages when json.loads fails
DefaultFeatureSets ==
    [t |-> "dict", keys |-> {"basic", "intermediate", "advanced"}, success |-> "", cause |-> "", repo_name |-> ""]
EmptyDict == [t |-> "dict", keys |-> {}, success |-> "", cause |-> "", repo_name |-> ""]
Raised(outcome) == [t |-> "raise", keys |-> {}, success |-> "", cause |-> outcome, repo_name |-> ""]

\* post_json reporting failure the way the utils clients do
HandleReturningNone_as_error_dict(outcome) ==
    IF outcome \in {"ok_200", "ok_200_empty", "ok_200_list", "ok_2xx"} THEN Payload(outcome)
    ELSE ErrorDict(outcome)

\* try: post; raise_for_status; return res.json()  except Exception: return None
HandleReturningNone(outcome) ==
    IF outcome \in {"ok_200", "ok_200_empty", "ok_200_list", "ok_2xx"} THEN Payload(outcome) ELSE ReturnNone

\* try: post; raise_for_status; return response.json()
\* except RequestException (or Exception): return {"error": str(e)}
\* (response.json() raises requests.exceptions.JSONDecodeError, a RequestException)
HandleReturningErrorDict(outcome) ==
    IF outcome \in {"ok_200", "ok_200_empty", "ok_200_list", "ok_2xx"} THEN Payload(outcome)
    ELSE ErrorDict(outcome)

\* generate_specification_sheet whose failure record for another status carries it
HandleSpecsheet_with_status_code(outcome) ==
    IF outcome \in {"ok_200", "ok_200_empty"} THEN SuccessRecord({"specsheet"})
    ELSE IF outcome \in {"ok_2xx", "http_error"} THEN FailureRecord(outcome, {"status_code"})
    ELSE FailureRecord(outcome, {})

\* generate_specification_sheet: status_code == 200 or the failure record; on a
\* body that is not an object result.get raises AttributeError, caught by
\* `except Exception`
HandleSpecsheet(outcome) ==
    IF outcome \in {"ok_200", "ok_200_empty"} THEN SuccessRecord({"specsheet"})
    ELSE FailureRecord(outcome, {})

\* result.get("repo_name", project_name) on the body of a 200 answer
RepoName(outcome) == IF outcome = "ok_200" THEN ServiceRepoName ELSE ProjectName

\* upload_to_github: status_code == 200 or the failure record, with status_code
\* when a response with another status was received; on a body that is not an
\* object result.get raises AttributeError, caught by `except Exception`
HandleUpload(outcome) ==
    IF outcome \in {"ok_200", "ok_200_empty"}
        THEN [SuccessRecord({"status", "message", "repo_name"}) EXCEPT
                 !.repo_name = RepoName(outcome)]
    ELSE IF outcome \in {"ok_2xx", "http_error"} THEN FailureRecord(outcome, {"status_code"})
    ELSE FailureRecord(outcome, {})

\* what a client returns when it returns before any request
EarlyReturn(c) ==
    IF c = "post_json" THEN ReturnNone ELSE FailureRecord("attribute_error", {})

\* chat_with_llm has no try/except: what the completion call raises, it raises
ChatRaises(outcome) == outcome \in {"http_error", "conn_error", "timeout"}

\* the LLM stages: only json.JSONDecodeError of json.loads is caught
HandleLlmStage(c, outcome) ==
    IF ChatRaises(outcome) THEN Raised(outcome)
    ELSE IF c = "build_comprehensive_spec_sheet" THEN Payload(outcome)
    ELSE IF outcome = "bad_body"
        THEN (IF c = "generate_feature_sets" THEN DefaultFeatureSets ELSE EmptyDict)
    ELSE Payload(outcome)

Handle(c, outcome) ==
    CASE c \in {"post_json", "get_health_check"} -> HandleReturningNone(outcome)
      [] c = "generate_specification_sheet" -> HandleSpecsheet(outcome)
      [] c = "upload_to_github" -> HandleUpload(outcome)
      [] c \in LlmStages -> HandleLlmStage(c, outcome)
      [] OTHER -> HandleReturningErrorDict(outcome)

(***************************************************************************)
(* SpecClient: the user triggers a client, the request is in flight, and   *)
(* the answer, an error or the expiry of the timeout ends the call.        *)
(***************************************************************************)
MaxInvocations == 2

InitClient ==
    /\ ValidateIdle
    /\ ScriptIdle
    /\ client = "none" /\ cpc = "idle" /\ cin = "none" /\ cresp = "none"
    /\ creqs = 0 /\ cret = NoReturn /\ cinvs = 0 /\ ctotal = 0
    /\ cserver \in {"answers", "silent"}

\* the user triggers an action: the client is called with its input and either
\* returns at once or sends its request
Invoke ==
    /\ cpc \in {"idle", "returned"}
    /\ cinvs < MaxInvocations
    /\ \E c \in Clients : \E input \in InputsOf(c) :
         /\ client' = c
         /\ cin' = input
         /\ cresp' = "none"
         /\ cinvs' = cinvs + 1
         /\ IF ReturnsBeforeRequest(c, input)
               THEN /\ cpc' = "returned"
                    /\ cret' = EarlyReturn(c)
                    /\ creqs' = 0
                    /\ ctotal' = ctotal
               ELSE /\ cpc' = "sent"
                    /\ cret' = NoReturn
                    /\ creqs' = 1
                    /\ ctotal' = ctotal + 1
    /\ UNCHANGED <<cserver, validateVars, scriptVars>>

\* a client that sends its request again when the first attempt fails
ServerResponds_with_retry ==
    /\ cpc = "sent"
    /\ cserver = "answers"
    /\ \E outcome \in OutcomesOf(client) :
         /\ cresp' = outcome
         /\ IF outcome \in FailureOutcomes /\ creqs < 2
               THEN /\ cpc' = "sent"
                    /\ creqs' = creqs + 1
                    /\ ctotal' = ctotal + 1
                    /\ cret' = cret
               ELSE /\ cpc' = "returned"
                    /\ cret' = Handle(client, outcome)
                    /\ UNCHANGED <<creqs, ctotal>>
    /\ UNCHANGED <<client, cin, cserver, cinvs, validateVars, scriptVars>>

\* the request ends with an answer or an error, and the client returns
ServerResponds ==
    /\ cpc = "sent"
    /\ cserver = "answers"
    /\ \E outcome \in OutcomesOf(client) :
         /\ cresp' = outcome
         /\ cret' = Handle(client, outcome)
    /\ cpc' = "returned"
    /\ UNCHANGED <<client, cin, creqs, cserver, cinvs, ctotal, validateVars, scriptVars>>

\* the timeout given to the request expires, and the client returns
TimeoutExpires ==
    /\ cpc = "sent"
    /\ client \in TimedClients
    /\ cresp' = "timeout"
    /\ cret' = Handle(client, "timeout")
    /\ cpc' = "returned"
    /\ UNCHANGED <<client, cin, creqs, cserver, cinvs, ctotal, validateVars, scriptVars>>

NextClient == Invoke \/ ServerResponds \/ TimeoutExpires

SpecClient == InitClient /\ [][NextClient]_vars


(***************************************************************************)
(* The clients' claims.                                                    *)
(***************************************************************************)
Returned == cpc = "returned"
ReturnedFailure == Returned /\ cresp \in FailureOutcomes

\* C5: a transport failure, an error status or a malformed body never leaves a
\* stage as an uncaught exception, the LLM-backed stages of main.py included.
C5_NoUncaughtFailure ==
    ReturnedFailure => cret.t # "raise"

\* the eight clients whose failure representation C6 is about
ListedClients ==
    { "post_json", "suggest_features_and_stack", "classify_features_by_level",
      "generate_cocomo2_parameters", "evaluate_cocomo_effort", "generate_folder_structure",
      "generate_specification_sheet", "upload_to_github" }
ErrorDictClients ==
    { "suggest_features_and_stack", "classify_features_by_level",
      "generate_cocomo2_parameters", "evaluate_cocomo_effort", "generate_folder_structure" }
RecordClients == { "generate_specification_sheet", "upload_to_github" }

\* the failures a client can meet: those of its outcomes, and the timeout it sets
FailuresOf(c) ==
    (OutcomesOf(c) \cap FailureOutcomes) \cup (IF c \in TimedClients THEN {"timeout"} ELSE {})

\* two values a caller can tell from success by the same test
SameRepresentation(a, b) ==
    a.t = b.t /\ a.keys \ {"status_code"} = b.keys \ {"status_code"}

C8_InFlightCallEnds ==
    (cpc = "sent" /\ client \in RequestsClients) => ENABLED (ServerResponds \/ TimeoutExpires)


(***************************************************************************)
(* main.py.  Streamlit runs the script from top to bottom after every user *)
(* interaction; a rerun sees the widget values, st.session_state and at    *)
(* most one clicked button.  What the LLM and the estimation API answer    *)
(* during the rerun is the rerun's input.                                  *)
(***************************************************************************)
Ideas == { "", "chat", "shop" }
Tiers == { "basic", "intermediate", "advanced" }
ParamModes == { "ai", "manual" }
\* st.selectbox("Programming Language", [...], index=0) of the manual tabs
Languages == { "Java", "Python" }

\* generate_feature_sets: what json.loads(cleaned) gives, or the fallback
FeatureOutcomes == { "tiers_a", "tiers_b", "basic_only", "bad_json", "not_a_dict", "raise" }
FeatureSets(keys, b, i, a) == [keys |-> keys, basic |-> b, intermediate |-> i, advanced |-> a]
FeatureSetsOf(outcome) ==
    CASE outcome = "tiers_a" -> FeatureSets(Tiers, <<"f1">>, <<"f1", "f2">>, <<"f1", "f2">>)
      [] outcome = "tiers_b" -> FeatureSets(Tiers, <<"f2">>, <<"f1", "f2">>, <<"f2", "f1">>)
      [] outcome = "basic_only" -> FeatureSets({"basic"}, <<"f1">>, <<>>, <<>>)
      [] OTHER -> FeatureSets(Tiers, <<>>, <<>>, <<>>)

\* the value bound to feature_sets in a rerun: a dict, another JSON value, or nothing
FeaturesDict(fs) == [k |-> "dict", v |-> fs]
FeaturesNotADict == [k |-> "list", v |-> FeatureSets({}, <<>>, <<>>, <<>>)]

\* feature_sets.get(level, [])
FeaturesGet(fs, lv) == IF lv \in fs.keys THEN fs[lv] ELSE <<>>

\* the values a multiselect over opts can hold: the chosen options, in the
\* order in which they were chosen
Selections(opts) ==
    LET options == { opts[i] : i \in 1..Len(opts) }
    IN { sel \in UNION { [1..n -> options] : n \in 0..Len(opts) } :
            \A i, j \in 1..Len(sel) : i # j => sel[i] # sel[j] }

\* a multiselect that keeps the stored selection when its label or options change
Multiselect_keeping_value(wdg, lv, avail) ==
    IF wdg = NoWidget THEN [lv |-> lv, opts |-> avail, val |-> avail]
    ELSE [lv |-> lv, opts |-> avail, val |-> wdg.val]

\* st.multiselect(label with the level, options=avail, default=avail): the stored
\* selection is kept while label and options are the same, else it is the default
Multiselect(wdg, lv, avail) ==
    IF wdg.lv = lv /\ wdg.opts = avail THEN wdg ELSE [lv |-> lv, opts |-> avail, val |-> avail]

\* generate_cocomo_parameters: what json.loads(cleaned) gives, or the fallback {}
ParamOutcomes == { "full", "no_reuse", "empty_fp", "empty", "not_a_dict", "raise" }
ReuseA == PyDict([asloc |-> PyNum(3000)])
RevlA == PyDict([new_sloc |-> PyNum(5000)])
EffortA == PyDict([sloc_ksloc |-> PyNum(9)])
ParamsOf(outcome) ==
    CASE outcome = "full" ->
            CocomoParams(FunctionPoints(PyList(<<GoodItem>>), PyStr("Java")), ReuseA, RevlA, EffortA)
      [] outcome = "no_reuse" ->
            CocomoParams(FunctionPoints(PyList(<<GoodItem>>), PyStr("Java")), Absent, RevlA, EffortA)
      [] outcome = "empty_fp" ->
            CocomoParams(FunctionPoints(Absent, Absent), ReuseA, RevlA, EffortA)
      [] outcome = "not_a_dict" -> PyList(<<PyNum(1)>>)
      [] OTHER -> CocomoParams(Absent, Absent, Absent, Absent)

\* manual_params: the bundle built from the widgets of the manual tabs
ManualParams(lang) ==
    CocomoParams(FunctionPoints(PyList(<<GoodItem, GoodItem, GoodItem>>), PyStr(lang)),
                 ReuseA, RevlA, EffortA)

\* a store that merges the new bundle into the stored one, as dict.update would
StoreParams_merging(sess, params) ==
    IF sess.k = "dict" /\ params.k = "dict"
        THEN PyDict([key \in DOMAIN params.v |->
                        IF params.v[key].k = "absent" THEN sess.v[key] ELSE params.v[key]])
        ELSE params

\* st.session_state['cocomo_params'] = cocomo_params
StoreParams(sess, params) == params

\* cocomo_params.get(key, {})
ParamsGet(params, key) ==
    IF In(key, params) THEN params.v[key] ELSE PyDict([none |-> Absent])

\* the four sub-calls, in the order of the script
EvalStages == <<"function_points", "reuse", "revl", "effort_schedule">>
\* post_json returns the JSON of a 200 answer, or None
EvalOutcomes == { "ok", "none" }

\* post_json sends unless `not payload`
PayloadSent(params, key) == ~Falsy(ParamsGet(params, key))

ParameterSectionShown_always(selected) == TRUE

\* `if selected_features:` in front of the parameter section
ParameterSectionShown(selected) == selected # <<>>

\* `if 'cocomo_params' in st.session_state and st.session_state['cocomo_params']:`
AnalysisShown(sess) == sess # Absent /\ ~Falsy(sess)

\* a rerun that has rendered nothing but the sidebar and the text input
Rerun(sess, trigger, sent) ==
    [session |-> sess, widget |-> NoWidget, level |-> "basic", mode |-> "ai",
     language |-> "Java", trigger |-> trigger, selected |-> <<>>, shown |-> {},
     sent |-> sent, answers |-> NoAnswers, api |-> {}, spec |-> FALSE, aborted |-> "",
     fs |-> NoFeatures, params |-> Absent, passed |-> <<>>]

\* what post_json can return for a request that was sent: a JSON object, the empty
\* JSON object, a JSON value that is no object (a list), or None after a failure
AnalysisOutcomes == { "ok", "empty", "list", "none" }

\* `if fp_result:` and its likes
AnswerTruthy(answer) == answer \in {"ok", "list"}

\* fp_result.get('ufp', 'N/A') and its likes raise AttributeError unless the
\* stored result is a dict
AnswerGetRaises(answer) == answer = "list"

\* the sub-call blocks run in order up to the first whose .get raises
LastBlockRun(sess, evalOut) ==
    LET raising == { i \in 1..Len(EvalStages) :
                        /\ PayloadSent(sess, EvalStages[i])
                        /\ AnswerGetRaises(evalOut[EvalStages[i]]) }
    IN IF raising = {} THEN Len(EvalStages)
       ELSE CHOOSE i \in raising : \A j \in raising : i <= j

\* lines 446-540: the analysis section
AnalysisSection(run, evalOut, specOut) ==
    IF ~AnalysisShown(run.session) THEN run
    ELSE LET shown == [run EXCEPT !.shown = @ \cup {"run"}]
         IN IF run.trigger # "run" THEN shown
            ELSE IF run.session.k # "dict" THEN [shown EXCEPT !.aborted = "AttributeError"]
            ELSE LET upto == LastBlockRun(run.session, evalOut)
                     posted == SelectSeq(SubSeq(EvalStages, 1, upto),
                                         LAMBDA key : PayloadSent(run.session, key))
                     made == { posted[i] : i \in 1..Len(posted) }
                     api == { key \in made : AnswerTruthy(evalOut[key]) }
                     called == [shown EXCEPT
                                   !.sent = @ \o posted,
                                   !.answers = [key \in DOMAIN evalOut |->
                                                   IF key \in made THEN evalOut[key]
                                                   ELSE "unsent"],
                                   !.api = api]
                     built == [called EXCEPT
                                  !.sent = Append(@, "build_comprehensive_spec_sheet"),
                                  !.passed = run.selected]
                 IN IF \E key \in made : AnswerGetRaises(evalOut[key])
                       THEN [called EXCEPT !.aborted = "AttributeError"]
                    ELSE IF api = {} THEN called
                    ELSE IF specOut = "raise" THEN [built EXCEPT !.aborted = "LlmError"]
                    ELSE [built EXCEPT !.spec = TRUE, !.shown = @ \cup {"download"}]

\* lines 294-443: the parameter section
ParameterSection(run, mode, lang, paramOut, evalOut, specOut) ==
    IF ~ParameterSectionShown(run.selected) THEN run
    ELSE IF mode = "manual"
        THEN AnalysisSection(
                 [run EXCEPT !.mode = mode, !.language = lang,
                             !.shown = @ \cup {"mode", "manual"},
                             !.params = ManualParams(lang),
                             !.session = StoreParams(@, ManualParams(lang))],
                 evalOut, specOut)
    ELSE LET shown == [run EXCEPT !.shown = @ \cup {"mode", "generate"}]
             called == [shown EXCEPT !.sent = Append(@, "generate_cocomo_parameters"),
                                     !.passed = run.selected]
             params == ParamsOf(paramOut)
             stored == [called EXCEPT !.params = params, !.session = StoreParams(@, params)]
         IN IF run.trigger # "generate" THEN AnalysisSection(shown, evalOut, specOut)
            ELSE IF paramOut = "raise" THEN [called EXCEPT !.aborted = "LlmError"]
            ELSE IF Falsy(params)
               THEN AnalysisSection([called EXCEPT !.params = params], evalOut, specOut)
            ELSE IF params.k # "dict" THEN [stored EXCEPT !.aborted = "AttributeError"]
            ELSE AnalysisSection(stored, evalOut, specOut)

\* the whole script: sidebar, text input, feature generation, selection, sections
Script(sw, lv, mode, lang, wdg, sess, trigger, fsOut, paramOut, evalOut, specOut) ==
    LET sent0 == IF trigger = "health" THEN <<"get_health_check">> ELSE <<>>
        called == Rerun(sess, trigger, Append(sent0, "generate_feature_sets"))
        fs == FeatureSetsOf(fsOut)
        avail == FeaturesGet(fs, lv)
        wdg2 == IF avail # <<>> THEN Multiselect(wdg, lv, avail) ELSE NoWidget
        tier == [called EXCEPT !.level = lv, !.shown = {"tier"}]
    IN IF sw = "" THEN Rerun(sess, trigger, sent0)
       ELSE IF fsOut = "raise" THEN [called EXCEPT !.aborted = "LlmError"]
       ELSE IF fsOut = "not_a_dict"
          THEN [tier EXCEPT !.fs = FeaturesNotADict, !.aborted = "AttributeError"]
       ELSE ParameterSection(
                [tier EXCEPT !.fs = FeaturesDict(fs), !.widget = wdg2, !.selected = wdg2.val,
                             !.shown = IF avail # <<>> THEN {"tier", "features"} ELSE {"tier"}],
                mode, lang, paramOut, evalOut, specOut)

\* one rerun of the script after the interaction `trigger`
RerunScript(sw, lv, mode, lang, wdg, trigger, fsOut, paramOut, evalOut, specOut) ==
    \E r \in { Script(sw, lv, mode, lang, wdg, session, trigger, fsOut, paramOut, evalOut, specOut) } :
       /\ software' = sw
       /\ level' = r.level
       /\ param_mode' = r.mode
       /\ manual_language' = r.language
       /\ widget' = r.widget
       /\ session' = r.session
       /\ last' = [trigger |-> r.trigger, selected |-> r.selected, shown |-> r.shown,
                   sent |-> r.sent, answers |-> r.answers, api |-> r.api, spec |-> r.spec,
                   aborted |-> r.aborted,
                   fs |-> r.fs, params |-> r.params, passed |-> r.passed]
       /\ UNCHANGED <<validateVars, clientVars>>

NoEval == [key \in {"function_points", "reuse", "revl", "effort_schedule"} |-> "none"]
EvalAnswers == [{"function_points", "reuse", "revl", "effort_schedule"} -> EvalOutcomes]
SpecOutcomes == { "ok", "raise" }

Init == ValidateIdle /\ ClientIdle /\ ScriptIdle

\* st.text_input("Describe your software project")
EnterIdea ==
    \E sw \in Ideas \ {software}, fsOut \in FeatureOutcomes :
        RerunScript(sw, level, param_mode, manual_language, widget, "idea",
                    fsOut, "raise", NoEval, "raise")

\* st.radio("Choose complexity tier", ...)
SelectTier ==
    /\ "tier" \in last.shown
    /\ \E lv \in Tiers \ {level}, fsOut \in FeatureOutcomes :
        RerunScript(software, lv, param_mode, manual_language, widget, "tier",
                    fsOut, "raise", NoEval, "raise")

\* st.multiselect(...)
EditFeatures ==
    /\ "features" \in last.shown
    /\ \E sel \in Selections(widget.opts) \ {widget.val}, fsOut \in FeatureOutcomes :
        RerunScript(software, level, param_mode, manual_language, [widget EXCEPT !.val = sel],
                    "features", fsOut, "raise", NoEval, "raise")

\* st.radio("Choose parameter input method:", ...)
SetParamMode ==
    /\ "mode" \in last.shown
    /\ \E mode \in ParamModes \ {param_mode}, fsOut \in FeatureOutcomes :
        RerunScript(software, level, mode, manual_language, widget, "mode",
                    fsOut, "raise", NoEval, "raise")

\* a widget of the manual tabs, here the language selectbox
EditManual ==
    /\ "manual" \in last.shown
    /\ \E lang \in Languages \ {manual_language}, fsOut \in FeatureOutcomes :
        RerunScript(software, level, param_mode, lang, widget, "manual",
                    fsOut, "raise", NoEval, "raise")

\* st.button("Generate Parameters with AI")
ClickGenerate ==
    /\ "generate" \in last.shown
    /\ \E fsOut \in FeatureOutcomes, paramOut \in ParamOutcomes :
        RerunScript(software, level, param_mode, manual_language, widget, "generate",
                    fsOut, paramOut, NoEval, "raise")

\* of the answers, those to the sub-calls made for the bundle sess: a call that is
\* not made has no answer
AnswersTo(sess, answers) ==
    { evalOut \in answers :
        \A key \in DOMAIN evalOut : ~PayloadSent(sess, key) => evalOut[key] = "none" }

EvalAnswersTo(sess) == AnswersTo(sess, EvalAnswers)

\* the click on the run button, the estimation API answering with one of answers
ClickRunWith(answers) ==
    /\ "run" \in last.shown
    /\ \E fsOut \in FeatureOutcomes :
        \E upto \in { Script(software, level, param_mode, manual_language, widget, session,
                             "run", fsOut, "raise", NoEval, "raise") } :
        \E evalOut \in (IF "run" \in upto.shown /\ upto.aborted = ""
                            THEN AnswersTo(upto.session, answers) ELSE {NoEval}) :
        \E specOut \in (IF evalOut = NoEval THEN {"raise"} ELSE SpecOutcomes) :
            RerunScript(software, level, param_mode, manual_language, widget, "run",
                        fsOut, "raise", evalOut, specOut)

\* st.button("Run COCOMO-II Analysis & Generate Specification")
ClickRun == ClickRunWith(EvalAnswers)

\* st.download_button("Download Specification as Markdown"): the browser saves the
\* data the button was given, and the click reruns the script
ClickDownload ==
    /\ "download" \in last.shown
    /\ \E fsOut \in FeatureOutcomes :
        RerunScript(software, level, param_mode, manual_language, widget, "download",
                    fsOut, "raise", NoEval, "raise")

\* st.button("Check API Health")
ClickHealth ==
    \E fsOut \in FeatureOutcomes :
        RerunScript(software, level, param_mode, manual_language, widget, "health",
                    fsOut, "raise", NoEval, "raise")

Next ==
    \/ EnterIdea
    \/ SelectTier
    \/ EditFeatures
    \/ SetParamMode
    \/ EditManual
    \/ ClickGenerate
    \/ ClickRun
    \/ ClickDownload
    \/ ClickHealth

Spec == Init /\ [][Next]_vars

(***************************************************************************)
(* Properties of the script.                                               *)
(***************************************************************************)
Sent(call) == \E i \in 1..Len(last.sent) : last.sent[i] = call
Posted == { EvalStages[i] : i \in 1..Len(EvalStages) } \cap { last.sent[i] : i \in 1..Len(last.sent) }

\* C9: a rerun that ends with no project idea or with no selected features
\* makes no parameter-generation call and leaves the stored bundle as it was.
C9_NoGenerationWithoutFeatures ==
    [][(software' = "" \/ last'.selected = <<>>)
          => (session' = session /\ ~Sent("generate_cocomo_parameters")')]_vars

\* the Generate button was clicked and the rerun found no features to select
C9_Witness ==
    /\ last.trigger = "generate"
    /\ last.selected = <<>>
    /\ last.aborted = ""
    /\ session # Absent

\* C10: when the analysis runs on a stored bundle that validate_cocomo_params
\* does not accept, none of the four evaluation requests is sent.
C10_NoEvaluationOfInvalidBundle ==
    (last.trigger = "run" /\ validate_cocomo_params(session) # Accept) => Posted = {}

\* the parameter-generation call of the last rerun failed: it raised, or its
\* answer was unparseable or empty (both give {})
GenerationFailed ==
    /\ last.trigger = "generate"
    /\ Sent("generate_cocomo_parameters")
    /\ (last.params = Absent \/ Falsy(last.params))

\* what the stages before parameter generation hold: the classified features,
\* the tier and the selection
Upstream == <<last.fs, level, last.selected>>

\* the stored bundle survives a failed generation
FailedGenerationKeepsStoredParams ==
    [][(session # Absent /\ GenerationFailed') => session' = session]_vars

\* C11: when a bundle is stored and a parameter generation fails, the stored
\* bundle is the one stored before, and the classified features, the tier and
\* the selected features are what they were before the attempt.
C11_FailedGenerationKeepsOutputs ==
    [][(session # Absent /\ GenerationFailed')
          => (session' = session /\ Upstream' = Upstream)]_vars

\* C12: in AI mode, an analysis run that directly follows a change of the idea,
\* the tier or the selection (no regeneration in between) sends no evaluation
\* request and builds no specification from the bundle stored before the change.
C12_StaleParamsAreNotEvaluated ==
    [][(last.trigger \in {"idea", "tier", "features"}
        /\ last'.trigger = "run" /\ param_mode' = "ai")
          => (Posted' = {} /\ ~Sent("build_comprehensive_spec_sheet")')]_vars

\* C13: the rerun caused by selecting another tier makes no call, and the
\* classified features after it are those held before it.
C13_TierSelectionIsPure ==
    [][last'.trigger = "tier" => (last'.sent = <<>> /\ last'.fs = last.fs)]_vars

\* a parameter action of the last rerun produced a bundle: a truthy answer of
\* generate_cocomo_parameters, or manual_params
ParamsProduced == last.params # Absent /\ ~Falsy(last.params)

\* C14: after every rerun the stored bundle is exactly the bundle produced in
\* that rerun, if one was produced, and otherwise the bundle stored before; so
\* it is always the most recent produced bundle, with nothing of earlier ones.
C14_StoredIsLatestBundle ==
    [][IF ParamsProduced' THEN session' = last'.params ELSE session' = session]_vars

\* an AI answer without the reuse section was produced and is the stored bundle
C14_Witness ==
    /\ last.trigger = "generate"
    /\ ParamsProduced
    /\ last.params = ParamsOf("no_reuse")
    /\ session = ParamsOf("no_reuse")

\* C15: the specification call is made only when all four evaluation sub-calls
\* have produced a result.
C15_SpecOnlyAfterFullEvaluation ==
    Sent("build_comprehensive_spec_sheet")
        => last.api = {"function_points", "reuse", "revl", "effort_schedule"}

\* C18: once there is a project idea, the classified-features value is a mapping
\* with the three keys basic, intermediate and advanced.
C18_ThreeTierKeys ==
    software # "" => (last.fs.k = "dict" /\ last.fs.v.keys = Tiers)

\* the classified feature list of the selected tier
ClassifiedForTier == FeaturesGet(last.fs.v, level)

\* the order-preserving subsequences of q
RECURSIVE SubSeqs(_)
SubSeqs(q) ==
    IF q = <<>> THEN { <<>> }
    ELSE LET rest == SubSeqs(Tail(q))
         IN rest \cup { <<Head(q)>> \o r : r \in rest }

\* the features argument of the LLM calls of the last rerun is the selection
PassedIsSelection ==
    (Sent("generate_cocomo_parameters") \/ Sent("build_comprehensive_spec_sheet"))
        => last.passed = last.selected

\* C19 as stated: the tier is one of the three, the selection is a subsequence
\* (in list order) of the classified list of that tier, and it is what is passed
\* to parameter and specification generation.
C19_SelectionIsSubsequence ==
    /\ level \in Tiers
    /\ last.selected \in SubSeqs(ClassifiedForTier)
    /\ PassedIsSelection

\* C19, amended: the selection consists of distinct members of the classified
\* list of the selected tier, in the order the user chose them.
C19_SelectionWithinTier ==
    /\ level \in Tiers
    /\ last.selected \in Selections(ClassifiedForTier)
    /\ PassedIsSelection

\* a selection edited down to one feature was passed to parameter generation
C19_Witness ==
    /\ Sent("generate_cocomo_parameters")
    /\ ClassifiedForTier = <<"f1", "f2">>
    /\ last.selected = <<"f2">>
    /\ last.passed = <<"f2">>

\* C20: the rerun caused by the download makes no call and leaves the
\* specification, and the button that exports it, in place.
C20_ExportKeepsSpecification ==
    last.trigger = "download" => (last.sent = <<>> /\ "download" \in last.shown)

(***************************************************************************)
(* Properties of upload_to_github.                                         *)
(***************************************************************************)
UploadCalled == client = "upload_to_github" /\ cpc \in {"sent", "returned"}

\* C16: an upload called with a folder structure that validate_folder_structure
\* does not accept sends no request.
C16_NoUploadOfInvalidFolder ==
    (UploadCalled /\ validate_folder_structure(UploadFolder(cin)) # Accept) => creqs = 0

\* C17: when the upload reports success, the single request was answered with
\* status 200 and the reported repo_name is the one in that answer.
C17_RepoNameFromService ==
    (UploadCalled /\ Returned /\ cret.success = "True") =>
        /\ creqs = 1
        /\ cresp \in {"ok_200", "ok_200_empty"}
        /\ cret.repo_name = ServiceRepoName

(***************************************************************************)
(* C21: the order of the checks.  The defects of a structure are listed    *)
(* without walking it: every location with a defect of its own, compared   *)
(* in pre-order (a node before its children, children before the node's    *)
(* later siblings).                                                        *)
(***************************************************************************)
\* the first top-level check that fails, "" when none does
TopLevelDefect(fs) ==
    IF Falsy(fs) THEN "empty"
    ELSE IF ~In("name", fs) THEN "name_missing"
    ELSE IF ~In("structure", fs) THEN "structure_missing"
    ELSE IF fs.v.structure.k # "list" THEN "structure_not_list"
    ELSE IF fs.v.structure.v = <<>> THEN "structure_empty"
    ELSE ""

DefectLocations(fs) == { loc \in WalkedLocations(fs) : OwnDefect(NodeAt(fs, loc)) # "" }

\* a comes before b in depth-first pre-order
PreOrderBefore(a, b) ==
    \E k \in 1..Len(b) :
        /\ \A j \in 1..(k - 1) : j <= Len(a) /\ a[j] = b[j]
        /\ \/ k = Len(a) + 1
           \/ k <= Len(a) /\ a[k] < b[k]

\* C21: a returned verdict is the message of the first failing check: the first
\* failing top-level check if there is one, else the first failing own check of
\* the first defective node in pre-order (with that node's invalid type in it),
\* and acceptance only when no check fails.
C21_FirstFailureInOrder ==
    (FolderDone /\ vout.st = "return") =>
        IF TopLevelDefect(vin) # ""
            THEN vout = Reject(TopLevelDefect(vin), NoPath, "")
        ELSE IF DefectLocations(vin) = {} THEN vout = Accept
        ELSE \E loc \in DefectLocations(vin) :
                /\ \A other \in DefectLocations(vin) \ {loc} : PreOrderBefore(loc, other)
                /\ ~vout.ok
                /\ vout.msg.id = OwnDefect(NodeAt(vin, loc))
                /\ vout.msg.path = PathOf(vin, loc)
                /\ vout.msg.id = "invalid_type" => vout.msg.arg = NodeAt(vin, loc).v.type.v

\* a structure with two defective nodes, the first of them below a folder, was
\* rejected
C21_Witness ==
    /\ FolderDone /\ Rejected(vout) /\ TopLevelDefect(vin) = ""
    /\ Cardinality(DefectLocations(vin)) >= 2
    /\ \E loc \in DefectLocations(vin) :
          /\ Len(loc) = 2
          /\ \A other \in DefectLocations(vin) \ {loc} : PreOrderBefore(loc, other)

(***************************************************************************)
(* SpecAnalysis: one analysis run, from the states in which an idea was    *)
(* entered and a bundle was stored, with every kind of answer the          *)
(* estimation API can give to each sub-call.                               *)
(***************************************************************************)
AnalysisAnswers ==
    [{"function_points", "reuse", "revl", "effort_schedule"} -> AnalysisOutcomes]

\* the reruns that lead to a stored bundle: the idea is entered, then either
\* the parameters are generated or the manual mode is chosen
StoredBundleRerun(mode, paramOut) ==
    LET entered == Script("chat", "basic", "ai", "Java", NoWidget, Absent, "idea",
                          "tiers_a", "raise", NoEval, "raise")
    IN IF mode = "ai"
          THEN Script("chat", entered.level, "ai", "Java", entered.widget, entered.session,
                      "generate", "tiers_a", paramOut, NoEval, "raise")
          ELSE Script("chat", entered.level, "manual", "Java", entered.widget, entered.session,
                      "mode", "tiers_a", "raise", NoEval, "raise")

InitAnalysis ==
    /\ ValidateIdle
    /\ ClientIdle
    /\ \E mode \in ParamModes, paramOut \in ParamOutcomes :
       \E r \in { StoredBundleRerun(mode, paramOut) } :
          /\ "run" \in r.shown
          /\ software = "chat"
          /\ level = r.level
          /\ param_mode = r.mode
          /\ manual_language = r.language
          /\ widget = r.widget
          /\ session = r.session
          /\ last = [trigger |-> r.trigger, selected |-> r.selected, shown |-> r.shown,
                     sent |-> r.sent, answers |-> r.answers, api |-> r.api, spec |-> r.spec,
                     aborted |-> r.aborted,
                     fs |-> r.fs, params |-> r.params, passed |-> r.passed]

\* the run button is clicked once
RunAnalysis == last.trigger # "run" /\ ClickRunWith(AnalysisAnswers)

SpecAnalysis == InitAnalysis /\ [][RunAnalysis]_vars

\* the rerun of the run click reached the sub-call blocks with the stored bundle
AnalysisRan == last.trigger = "run" /\ "run" \in last.shown /\ session.k = "dict"

\* the evaluation requests of the last rerun, in the order they were sent
PostedInOrder ==
    SelectSeq(last.sent, LAMBDA call : \E i \in 1..Len(EvalStages) : call = EvalStages[i])

SubCallsIndependent ==
    /\ PostedInOrder = SelectSeq(EvalStages, LAMBDA key : PayloadSent(session, key))
    /\ \A key \in DOMAIN last.answers :
          key \in last.api <=> (PayloadSent(session, key) /\ AnswerTruthy(last.answers[key]))

\* C22: when the analysis runs, a request is sent for every non-empty payload, in
\* the order function_points, reuse, revl, effort_schedule, whatever the earlier
\* calls returned, and api_results holds key k exactly when the request for k was
\* sent and returned a truthy JSON value.
C22_SubCallsInOrder ==
    AnalysisRan => SubCallsIndependent

\* the same, when every truthy answer is a JSON object
SubCallsInOrderOnObjects ==
    (AnalysisRan /\ \A key \in DOMAIN last.answers : last.answers[key] # "list")
        => SubCallsIndependent

(***************************************************************************)
(* The records of generate_specification_sheet and upload_to_github.       *)
(***************************************************************************)
RecordReturned == Returned /\ client \in RecordClients

\* the keys of a success record besides 'success'
PayloadKeys == { "specsheet", "status", "message", "repo_name" }

\* what every record of the two clients satisfies, but for when it succeeds and
\* when it carries 'status_code'
RecordShape ==
    /\ cret.t = "dict"
    /\ "success" \in cret.keys
    /\ cret.success \in {"True", "False"}
    /\ cret.success = "True" =>
          /\ "error" \notin cret.keys
          /\ cret.keys \ {"success"} =
                IF client = "upload_to_github" THEN {"status", "message", "repo_name"}
                ELSE {"specsheet"}
    /\ cret.success = "False" =>
          /\ "error" \in cret.keys
          /\ cret.keys \cap PayloadKeys = {}

\* C23: whatever the outcome of the request, the two clients return a record with
\* a boolean 'success', True exactly when the status was 200 and the body parsed;
\* a success record has no 'error', a failure record has 'error' and no payload
\* key, and 'status_code' is present exactly when a response with another status
\* than 200 was received.
C23_RecordAsStated ==
    (RecordReturned /\ cresp # "none") =>
        /\ RecordShape
        /\ cret.success = "True" <=> cresp \in {"ok_200", "ok_200_empty", "ok_200_list"}
        /\ "status_code" \in cret.keys <=> cresp \in {"ok_2xx", "http_error"}

\* C23 as amended: 'success' is True exactly when the status was 200 and the body
\* parsed to a JSON object, and 'status_code' is present exactly in the record
\* upload_to_github returns for a response with another status than 200; the
\* record generate_specification_sheet returns never has it.
C23_RecordByClient ==
    RecordReturned =>
        /\ RecordShape
        /\ cret.success = "True" <=> cresp \in {"ok_200", "ok_200_empty"}
        /\ "status_code" \in cret.keys <=>
              (client = "upload_to_github" /\ cresp \in {"ok_2xx", "http_error"})

\* generate_specification_sheet received an error status and returned a failure
\* record without 'status_code'
C23_Witness ==
    /\ RecordReturned /\ client = "generate_specification_sheet"
    /\ cresp = "http_error"
    /\ cret.success = "False" /\ "status_code" \notin cret.keys

(***************************************************************************)
(* get_project_summary (utils/github_upload.py) and its nested             *)
(* count_items.  A count is the returned (file_count, folder_count) pair or *)
(* the exception that ended the walk.                                      *)
(***************************************************************************)
Counted(files, folders) == [st |-> "return", files |-> files, folders |-> folders, exc |-> ""]
CountRaise(exc) == [st |-> "raise", files |-> 0, folders |-> 0, exc |-> exc]

RECURSIVE count_items(_)

\* a walk that also descends into the children of file nodes
CountItem_descending_into_files(item) ==
    IF item.k # "dict" THEN CountRaise("TypeError")
    ELSE IF ~In("type", item) THEN CountRaise("KeyError")
    ELSE IF ~(IsStr(item.v.type, "file") \/ IsStr(item.v.type, "folder")) THEN Counted(0, 0)
    ELSE LET own == IF IsStr(item.v.type, "file") THEN Counted(1, 0) ELSE Counted(0, 1)
         IN IF In("children", item)
               THEN LET below == count_items(item.v.children)
                    IN IF below.st = "raise" THEN below
                       ELSE Counted(own.files + below.files, own.folders + below.folders)
               ELSE own

\* the body of `for item in structure`: what one item adds to the two counters
CountItem(item) ==
    IF item.k # "dict" THEN CountRaise("TypeError")
    ELSE IF ~In("type", item) THEN CountRaise("KeyError")
    ELSE IF IsStr(item.v.type, "file") THEN Counted(1, 0)
    ELSE IF IsStr(item.v.type, "folder")
        THEN IF In("children", item)
                THEN LET below == count_items(item.v.children)
                     IN IF below.st = "raise" THEN below
                        ELSE Counted(below.files, 1 + below.folders)
                ELSE Counted(0, 1)
    ELSE Counted(0, 0)

RECURSIVE CountItems(_, _)
\* the loop `for item in structure` from its i-th item on
CountItems(items, i) ==
    IF i > Len(items) THEN Counted(0, 0)
    ELSE LET own == CountItem(items[i])
         IN IF own.st = "raise" THEN own
            ELSE LET rest == CountItems(items, i + 1)
                 IN IF rest.st = "raise" THEN rest
                    ELSE Counted(own.files + rest.files, own.folders + rest.folders)

\* count_items(structure): iterating a dict or a string yields strings, on which
\* item["type"] raises TypeError; None and numbers cannot be iterated
count_items(structure) ==
    CASE structure.k = "list" -> CountItems(structure.v, 1)
      [] structure.k \in {"dict", "str"} ->
            IF Falsy(structure) THEN Counted(0, 0) ELSE CountRaise("TypeError")
      [] OTHER -> CountRaise("TypeError")

Summary(name, files, folders) ==
    [st |-> "return", name |-> name, files |-> files, folders |-> folders, exc |-> ""]
SummaryRaise(exc) ==
    [st |-> "raise", name |-> PyNone, files |-> 0, folders |-> 0, exc |-> exc]
UnknownSummary == Summary(PyStr("Unknown"), 0, 0)

get_project_summary(fs) ==
    IF Falsy(fs) THEN UnknownSummary
    ELSE IF InRaises(fs) THEN SummaryRaise("TypeError")
    ELSE IF ~In("structure", fs) THEN UnknownSummary
    ELSE IF SubscriptRaises(fs) THEN SummaryRaise("TypeError")
    ELSE LET count == count_items(fs.v.structure)
         IN IF count.st = "raise" THEN SummaryRaise(count.exc)
            ELSE Summary(IF In("name", fs) THEN fs.v.name ELSE PyStr("Unknown"),
                         count.files, count.folders)

(***************************************************************************)
(* SpecSummary: get_project_summary is called once on an input.            *)
(***************************************************************************)
InitSummary ==
    /\ ClientIdle
    /\ ScriptIdle
    /\ vfn = "summary"
    /\ vin \in FolderInputs
    /\ vout = Pending

Summarize ==
    /\ vfn = "summary"
    /\ vout.st = "pending"
    /\ vout' = get_project_summary(vin)
    /\ UNCHANGED <<vfn, vin, clientVars, scriptVars>>

SpecSummary == InitSummary /\ [][Summarize]_vars

SummaryDone == vfn = "summary" /\ vout.st # "pending"

\* the nodes of an accepted structure of the given type, reached through
\* 'structure' and the 'children' of folder nodes
NodesOfType(fs, type) ==
    { loc \in WalkedLocations(fs) : IsStr(NodeAt(fs, loc).v.type, type) }

\* C24: on a structure validate_folder_structure accepts, get_project_summary
\* returns, with files the number of file nodes and folders the number of folder
\* nodes reachable through 'structure' and the 'children' of folder nodes, the two
\* adding up to the number of those nodes; on an empty input or one without
\* 'structure' it returns files = 0, folders = 0, name = 'Unknown'.
C24_SummaryCounts ==
    SummaryDone =>
        /\ validate_folder_structure(vin) = Accept =>
              /\ vout.st = "return"
              /\ vout.files = Cardinality(NodesOfType(vin, "file"))
              /\ vout.folders = Cardinality(NodesOfType(vin, "folder"))
              /\ vout.files + vout.folders = Cardinality(WalkedLocations(vin))
        /\ (Falsy(vin) \/ (vin.k \in {"dict", "str", "list"} /\ ~In("structure", vin))) =>
              vout = UnknownSummary

\* an accepted structure whose folder holds a file that carries a child: the
\* summary counts the folder and the file, not the child
C24_Witness ==
    /\ SummaryDone
    /\ validate_folder_structure(vin) = Accept
    /\ vout.st = "return" /\ vout.files = 1 /\ vout.folders = 1
    /\ \E loc \in WalkedLocations(vin) :
          /\ Len(loc) = 2
          /\ IsStr(NodeAt(vin, loc).v.type, "file")
          /\ NodeAt(vin, loc).v.children.k = "list"
          /\ Len(NodeAt(vin, loc).v.children.v) = 1

====
